---- MODULE Spec2Model ----
(***************************************************************************)
(* The replacer stage of the search-and-replace pipeline                   *)
(* (src/src/pipeline_replacer.rs): PipelineReplacer::setup, the stage      *)
(* loop, and PipelineReplacer::replace_match, the per-file rewrite through *)
(* a temporary file.  replace_match is split into one action per I/O step  *)
(* because the ctrlc handler thread can run between any two of them.       *)
(*                                                                         *)
(* Byte offsets are 0-based as in the source; Slice(s, a, b) is s[a..b].   *)
(* Time stamps are abstract: 0 is the stamp a file carries before the run, *)
(* Now is any stamp taken during the run.                                  *)
(***************************************************************************)
EXTENDS Integers, Sequences, FiniteSets, TLC

VARIABLES
    is_interactive, preserve_time, regex,   \* configuration fields
    print_column, print_row,
    all_replace, replaced_paths, infos, errors, seq_beg_arrived,
    console,          \* the error lines written to the console (their paths)
    pc,               \* position of the stage thread
    x, pm,            \* the SeqDat being processed: sequence id, PathMatch
    src,              \* the mapped content of the target
    i, k,             \* cursor into src, index of the current match
    do_replace,
    pos, column, last_lf,   \* the line-feed scan of lines 108-111
    shown,            \* the column and row written in the prompt's header
    prompts,          \* times the question was written for the current match
    key,              \* the key read last at the current match
    tmpfile,          \* the NamedTempFile owned by replace_match
    real_path, metadata, time,
    fs,               \* the files: content, perm, mtime, atime
    tmps,             \* the temporary files that exist in the directory
    handler,          \* the temp file the registered ctrlc handler removes
    ntmp,             \* temporary files created so far
    inp, out,         \* messages received from rx, messages sent on tx
    dec,              \* history: the decision taken for each match so far
    installed,        \* history: one record per successful persist
    sig,              \* history: where the interrupt arrived
    fs0               \* history: the files as they were before the run

cfgv == <<is_interactive, preserve_time, regex, print_column, print_row>>
engv == <<all_replace, replaced_paths, infos, errors, seq_beg_arrived>>
scanv == <<pos, column, last_lf>>
askv == <<shown, prompts, key>>
locv == <<x, pm, src, i, k, do_replace, real_path, metadata, time, dec,
          scanv, askv>>
vars == <<cfgv, engv, console, pc, locv, tmpfile, fs, tmps, handler, ntmp,
          inp, out, installed, sig, fs0>>

----------------------------------------------------------------------------
(* Bounds *)

MaxLen == 1        \* length of the first file's content
MaxMatches == 2    \* matches of one PathMatch
MaxWork == 4       \* messages read from the input channel, a SeqDat counting twice
MaxSeq == 2        \* sequence ids of SeqBeg and SeqEnd
MaxPrompts == 2    \* times the question is written for one match

----------------------------------------------------------------------------
(* Constants of the program and of its environment *)

LF == 10
Id == 2
Now == 1
TmpPerm == 600

UpIds == {1}
Bytes == {LF, 97}
replacement == <<98, 36, 48>>

Files == {"F1", "F2"}
Paths == {"a", "l", "b", "x"}
NoFile == "none"

Canon(p) ==
    CASE p = "a" -> "F1"
      [] p = "l" -> "F1"
      [] p = "b" -> "F2"
      [] OTHER -> NoFile

Contents(n) == UNION {[1..len -> Bytes] : len \in 0..n}

Ranges(len) == {[beg |-> b, end |-> e] : b \in 0..len, e \in 0..len}

ValidMatches(len) ==
    {ms \in UNION {[1..n -> {r \in Ranges(len) : r.beg < r.end}] : n \in 0..MaxMatches} :
        \A j \in 1..(Len(ms) - 1) : ms[j].end <= ms[j + 1].beg}

MatchesFor(p) ==
    IF Canon(p) = NoFile THEN ValidMatches(1)
    ELSE ValidMatches(Len(fs0[Canon(p)].content))

Slice(s, a, b) == SubSeq(s, a + 1, b)

----------------------------------------------------------------------------
(* Messages of the channel protocol *)

SeqBeg(s) == [t |-> "SeqBeg", a |-> s, b |-> 0]
SeqDat(s) == [t |-> "SeqDat", a |-> s, b |-> 0]
SeqEnd(s) == [t |-> "SeqEnd", a |-> s, b |-> 0]
Msg(kind, id, e) == [t |-> kind, a |-> id, b |-> e]
MsgKinds == {"MsgDebug", "MsgInfo", "MsgErr", "MsgTime"}

\* A received message as inp records it: a SeqDat with the path of its
\* PathMatch and the number of its matches
Rcvd(m, p, n) == [t |-> m.t, a |-> m.a, b |-> m.b, path |-> p, n |-> n]
Sent(r) == [t |-> r.t, a |-> r.a, b |-> r.b]

----------------------------------------------------------------------------
(* Replacement text *)

RECURSIVE Expand(_, _, _)
\* Captures::expand restricted to templates whose only reference is $0,
\* the whole match: "$0" (bytes 36, 48) is replaced by the captured text.
Expand(tpl, org, j) ==
    IF j > Len(tpl) THEN <<>>
    ELSE IF tpl[j] = 36 /\ j < Len(tpl) /\ tpl[j + 1] = 48
         THEN org \o Expand(tpl, org, j + 2)
         ELSE <<tpl[j]>> \o Expand(tpl, org, j + 1)

get_regex_replacement(org) == Expand(replacement, org, 1)

\* lines 115-119
Replacement(org) ==
    IF regex THEN get_regex_replacement(org) ELSE replacement

----------------------------------------------------------------------------
(* Initial state *)

NoTmp == [id |-> 0, content |-> <<>>, perm |-> 0]
NoPm == [path |-> NoFile, matches |-> <<>>]
NoMeta == [perm |-> 0, mtime |-> 0, atime |-> 0]
NoTime == [set |-> FALSE, mtime |-> 0, atime |-> 0]
NoShown == [column |-> 0, row |-> 0 - 1]
NoKey == ""

InitFs(c) ==
    [f \in Files |->
        IF f = "F1" THEN [content |-> c, perm |-> 644, mtime |-> 0, atime |-> 0]
        ELSE [content |-> <<LF, 97>>, perm |-> 755, mtime |-> 0, atime |-> 0]]

Init ==
    /\ is_interactive \in BOOLEAN
    /\ preserve_time \in BOOLEAN
    /\ regex \in BOOLEAN
    \* the two flags are read at a prompt only (line 130)
    /\ print_column \in (IF is_interactive THEN BOOLEAN ELSE {FALSE})
    /\ print_row \in (IF is_interactive THEN BOOLEAN ELSE {FALSE})
    /\ all_replace = FALSE
    /\ replaced_paths = {}
    /\ infos = <<>>
    /\ errors = <<>>
    /\ seq_beg_arrived = FALSE
    /\ console = <<>>
    /\ pc = "recv"
    /\ x = 0
    /\ pm = NoPm
    /\ src = <<>>
    /\ i = 0
    /\ k = 0
    /\ do_replace = TRUE
    /\ pos = 0
    /\ column = 0
    /\ last_lf = 0
    /\ shown = NoShown
    /\ prompts = 0
    /\ key = NoKey
    /\ tmpfile = NoTmp
    /\ real_path = NoFile
    /\ metadata = NoMeta
    /\ time = NoTime
    /\ fs \in {InitFs(c) : c \in Contents(MaxLen)}
    /\ tmps = {}
    /\ handler = 0
    /\ ntmp = 0
    /\ inp = <<>>
    /\ out = <<>>
    /\ dec = <<>>
    /\ installed = <<>>
    /\ sig = "none"
    /\ fs0 = fs

----------------------------------------------------------------------------
(* The stage loop, PipelineReplacer::setup *)

ResetLocals ==
    /\ x' = 0
    /\ pm' = NoPm
    /\ src' = <<>>
    /\ i' = 0
    /\ k' = 0
    /\ do_replace' = TRUE
    /\ real_path' = NoFile
    /\ metadata' = NoMeta
    /\ time' = NoTime
    /\ dec' = <<>>
    /\ pos' = 0
    /\ column' = 0
    /\ last_lf' = 0
    /\ shown' = NoShown
    /\ prompts' = 0
    /\ key' = NoKey

\* The producer numbers its SeqDat messages 1, 2, ... in the order it sends them
NData == Cardinality({j \in 1..Len(inp) : inp[j].t = "SeqDat"})
NextSeq == NData + 1

\* The input explored: a SeqDat, which starts a rewrite, counts as two messages
Work == Len(inp) + NData

\* line 261: the token sent once replace_match has returned
Token(s) == <<SeqDat(s)>>

\* Faulty variant: every SeqBeg is forwarded
BegOutAlways(arrived, s) == <<SeqBeg(s)>>

\* lines 265-271
BegOut(arrived, s) == IF ~arrived THEN <<SeqBeg(s)>> ELSE <<>>

\* Faulty variant: SeqEnd is sent before the stage's own messages
EndOutFirst(s) ==
    <<SeqEnd(s)>>
        \o [j \in 1..Len(infos) |-> Msg("MsgInfo", Id, infos[j])]
        \o [j \in 1..Len(errors) |-> Msg("MsgErr", Id, errors[j])]
        \o <<Msg("MsgTime", Id, 0)>>

\* lines 274-282
EndOut(s) ==
    [j \in 1..Len(infos) |-> Msg("MsgInfo", Id, infos[j])]
        \o [j \in 1..Len(errors) |-> Msg("MsgErr", Id, errors[j])]
        \o <<Msg("MsgTime", Id, 0)>>
        \o <<SeqEnd(s)>>

\* Faulty variant: a relayed message is tagged with the relaying stage's id
RelayRetagged(m) == <<[m EXCEPT !.a = Id]>>

\* lines 286-297
Relay(m) == <<m>>

\* Faulty variant: no check of the Replaced-Path Set
SkippedNoDedup(p, ms) ==
    \/ ms = <<>>
    \/ Canon(p) = NoFile

\* Faulty variant: a PathMatch without matches is not returned early
SkippedNoEmptyCheck(p, ms) ==
    \/ Canon(p) = NoFile
    \/ Canon(p) \in replaced_paths

\* Faulty variant: a path that cannot be canonicalized is not returned early
SkippedNoCanonCheck(p, ms) ==
    \/ ms = <<>>
    \/ Canon(p) \in replaced_paths

\* lines 66-80: the three early returns of replace_match
Skipped(p, ms) ==
    \/ ms = <<>>
    \/ Canon(p) = NoFile
    \/ Canon(p) \in replaced_paths

\* Faulty variant: the canonical path is not remembered
InsertedNever(paths, f) == paths

\* line 76
Inserted(paths, f) == paths \cup {f}

\* lines 258-263 with lines 66-82 of replace_match
RecvData ==
    /\ pc = "recv"
    /\ Work + 2 <= MaxWork
    /\ \E s \in {NextSeq}, p \in Paths :
         \E ms \in MatchesFor(p) :
            /\ inp' = Append(inp, Rcvd(SeqDat(s), p, Len(ms)))
            /\ IF Skipped(p, ms)
               THEN /\ out' = out \o Token(s)
                    /\ UNCHANGED <<pc, locv, replaced_paths>>
               ELSE /\ replaced_paths' = Inserted(replaced_paths, Canon(p))
                    /\ pc' = "tmpfile"
                    /\ x' = s
                    /\ pm' = [path |-> p, matches |-> ms]
                    /\ UNCHANGED <<out, src, i, k, do_replace, real_path,
                                   metadata, time, dec, scanv, askv>>
    /\ UNCHANGED <<cfgv, all_replace, infos, errors, seq_beg_arrived, console,
                   tmpfile, fs, tmps, handler, ntmp, installed, sig, fs0>>

\* lines 265-271
RecvBeg ==
    /\ pc = "recv"
    /\ Work < MaxWork
    /\ \E s \in 1..MaxSeq :
         /\ inp' = Append(inp, Rcvd(SeqBeg(s), NoFile, 0))
         /\ out' = out \o BegOut(seq_beg_arrived, s)
    /\ seq_beg_arrived' = TRUE
    /\ UNCHANGED <<cfgv, all_replace, replaced_paths, infos, errors, console,
                   pc, locv, tmpfile, fs, tmps, handler, ntmp, installed,
                   sig, fs0>>

\* lines 273-284
RecvEnd ==
    /\ pc = "recv"
    /\ Work < MaxWork
    /\ \E s \in 1..MaxSeq :
         /\ inp' = Append(inp, Rcvd(SeqEnd(s), NoFile, 0))
         /\ out' = out \o EndOut(s)
    /\ pc' = "stopped"
    /\ UNCHANGED <<cfgv, engv, console, locv, tmpfile, fs, tmps, handler,
                   ntmp, installed, sig, fs0>>

\* lines 286-297
RecvMsg ==
    /\ pc = "recv"
    /\ Work < MaxWork
    /\ \E kind \in MsgKinds, id \in UpIds :
         /\ inp' = Append(inp, Rcvd(Msg(kind, id, 7), NoFile, 0))
         /\ out' = out \o Relay(Msg(kind, id, 7))
    /\ UNCHANGED <<cfgv, engv, console, pc, locv, tmpfile, fs, tmps, handler,
                   ntmp, installed, sig, fs0>>

\* Faulty variant: a disconnected input is treated as the end of the sequence
DisconnectFlushes ==
    /\ pc = "recv"
    /\ pc' = "stopped"
    /\ out' = out \o EndOut(1)
    /\ UNCHANGED <<cfgv, engv, console, locv, tmpfile, fs, tmps, handler,
                   ntmp, inp, installed, sig, fs0>>

\* line 298
Disconnect ==
    /\ pc = "recv"
    /\ pc' = "stopped"
    /\ UNCHANGED <<cfgv, engv, console, locv, tmpfile, fs, tmps, handler,
                   ntmp, inp, out, installed, sig, fs0>>

----------------------------------------------------------------------------
(* The rewrite of one file, PipelineReplacer::replace_match lines 84-229 *)

\* What no step of the rewrite changes
Frame == UNCHANGED <<cfgv, replaced_paths, infos, errors, seq_beg_arrived,
                     ntmp, inp, sig, fs0>>

\* Faulty variant: the error path returns without sending the token
FailNoToken ==
    /\ tmps' = tmps \ {tmpfile.id}
    /\ tmpfile' = NoTmp
    /\ console' = Append(console, pm.path)
    /\ out' = out
    /\ pc' = "recv"
    /\ ResetLocals

\* Faulty variant: a failed rewrite ends the stage's loop
FailStops ==
    /\ tmps' = tmps \ {tmpfile.id}
    /\ tmpfile' = NoTmp
    /\ console' = Append(console, pm.path)
    /\ out' = out \o Token(x)
    /\ pc' = "stopped"
    /\ ResetLocals

\* Faulty variant: the temporary file of a failed rewrite is left behind
FailLeaks ==
    /\ tmps' = tmps
    /\ tmpfile' = NoTmp
    /\ console' = Append(console, pm.path)
    /\ out' = out \o Token(x)
    /\ pc' = "recv"
    /\ ResetLocals

\* lines 223-229 and 261: a step returned Err.  The NamedTempFile is dropped,
\* which removes the file; the diagnostic goes to the console; replace_match
\* returns and the token is sent.
Fail ==
    /\ tmps' = tmps \ {tmpfile.id}
    /\ tmpfile' = NoTmp
    /\ console' = Append(console, pm.path)
    /\ out' = out \o Token(x)
    /\ pc' = "recv"
    /\ ResetLocals

\* lines 100 and 180: exit ends the process and with it the locals of
\* replace_match; pm and dec are kept as history
Exited ==
    /\ x' = 0
    /\ src' = <<>>
    /\ i' = 0
    /\ k' = 0
    /\ do_replace' = TRUE
    /\ real_path' = NoFile
    /\ metadata' = NoMeta
    /\ time' = NoTime
    /\ pos' = 0
    /\ column' = 0
    /\ last_lf' = 0
    /\ shown' = NoShown
    /\ prompts' = 0
    /\ key' = NoKey
    /\ UNCHANGED <<pm, dec>>

\* lines 221-224 and 261: the closure returned Ok
ReturnOk ==
    /\ out' = out \o Token(x)
    /\ pc' = "recv"
    /\ ResetLocals

\* line 85
CreateTmp ==
    /\ pc = "tmpfile"
    /\ \E ok \in BOOLEAN :
         IF ok
         THEN /\ tmpfile' = [id |-> ntmp + 1, content |-> <<>>, perm |-> TmpPerm]
              /\ tmps' = tmps \cup {ntmp + 1}
              /\ ntmp' = ntmp + 1
              /\ pc' = "handler"
              /\ UNCHANGED <<console, out, locv>>
         ELSE /\ Fail
              /\ UNCHANGED ntmp
    /\ UNCHANGED <<cfgv, engv, fs, handler, inp, installed, sig, fs0>>

\* ctrlc::set_handler registers a handler only when none is registered yet;
\* otherwise it returns Err(MultipleHandlers) and keeps the old one.
Registered(old, new) == IF old = 0 THEN new ELSE old

\* lines 87-101: the result of set_handler is discarded
SetHandler ==
    /\ pc = "handler"
    /\ handler' = Registered(handler, tmpfile.id)
    /\ pc' = "open"
    /\ UNCHANGED <<all_replace, console, out, locv, tmpfile, fs, tmps, installed>>
    /\ Frame

\* Faulty variant: the target is opened for writing, which truncates it
OpenedTruncating(f, touch) ==
    [fs EXCEPT ![f].content = <<>>, ![f].atime = IF touch THEN Now ELSE @]

\* lines 104-105: the target is opened read-only and mapped; reading it may
\* move its access time
Opened(f, touch) == [fs EXCEPT ![f].atime = IF touch THEN Now ELSE @]

\* lines 104-111
OpenMap ==
    /\ pc = "open"
    /\ \E ok \in BOOLEAN, touch \in BOOLEAN :
         IF ok
         THEN /\ src' = fs[Canon(pm.path)].content
              /\ fs' = Opened(Canon(pm.path), touch)
              /\ i' = 0
              /\ k' = 1
              /\ pos' = 0
              /\ column' = 0
              /\ last_lf' = 0
              /\ pc' = IF pm.matches = <<>> THEN "trail" ELSE "gap"
              /\ UNCHANGED <<console, out, tmpfile, tmps, x, pm, do_replace,
                             real_path, metadata, time, dec, askv>>
         ELSE /\ Fail
              /\ UNCHANGED fs
    /\ UNCHANGED <<all_replace, handler, installed>>
    /\ Frame

\* line 113: the bytes between the previous match and this one
Gap(m) == Slice(src, i, m.beg)

RECURSIVE ScanInclusive(_, _, _, _)
\* Faulty variant: the byte at the match's own offset is scanned too
ScanInclusive(p, c, l, beg) ==
    IF p <= beg
    THEN IF src[p + 1] = LF THEN ScanInclusive(p + 1, c + 1, p, beg)
         ELSE ScanInclusive(p + 1, c, l, beg)
    ELSE [pos |-> p, column |-> c, last_lf |-> l]

RECURSIVE Scan(_, _, _, _)
\* lines 131-137: the scan from cursor p up to offset beg, with c line feeds
\* counted so far and the last of them at offset l
Scan(p, c, l, beg) ==
    IF p < beg
    THEN IF src[p + 1] = LF THEN Scan(p + 1, c + 1, p, beg)
         ELSE Scan(p + 1, c, l, beg)
    ELSE [pos |-> p, column |-> c, last_lf |-> l]

\* lines 130-137
Scanned(beg) ==
    IF print_column \/ print_row THEN Scan(pos, column, last_lf, beg)
    ELSE [pos |-> pos, column |-> column, last_lf |-> last_lf]

\* lines 138-147: the numbers written in the header, 0 and -1 for a field
\* that is not written
Header(sc, beg) ==
    [column |-> IF (print_column \/ print_row) /\ print_column
                THEN sc.column + 1 ELSE 0,
     row |-> IF (print_column \/ print_row) /\ print_row
             THEN beg - sc.last_lf ELSE 0 - 1]

\* lines 112-160, and 188 when no prompt is shown
WriteGap ==
    /\ pc = "gap"
    /\ \E ok \in BOOLEAN :
         IF ok
         THEN /\ tmpfile' = [tmpfile EXCEPT !.content = @ \o Gap(pm.matches[k])]
              /\ do_replace' = TRUE
              /\ IF is_interactive /\ ~all_replace
                 THEN LET sc == Scanned(pm.matches[k].beg) IN
                      /\ pos' = sc.pos
                      /\ column' = sc.column
                      /\ last_lf' = sc.last_lf
                      /\ shown' = Header(sc, pm.matches[k].beg)
                      /\ prompts' = 1
                      /\ pc' = "prompt"
                 ELSE /\ pc' = "emit"
                      /\ UNCHANGED <<scanv, shown, prompts>>
              /\ UNCHANGED <<console, out, tmps, x, pm, src, i, k, real_path,
                             metadata, time, dec, key>>
         ELSE Fail
    /\ UNCHANGED <<all_replace, fs, handler, installed>>
    /\ Frame

AcceptKeys == {"Y", "y", " ", "\r", "\n"}
DeclineKeys == {"N", "n"}
AllKeys == {"A", "a"}
QuitKeys == {"Q", "q"}
OtherKeys == {"z"}
Keys == AcceptKeys \cup DeclineKeys \cup AllKeys \cup QuitKeys \cup OtherKeys

\* Faulty variant: the "all" key accepts the match and sets no flag
KeyEffectNoAll(c) ==
    CASE c \in AcceptKeys \cup AllKeys -> "yes"
      [] c \in DeclineKeys -> "no"
      [] c \in QuitKeys -> "quit"
      [] OTHER -> "again"

\* lines 172-183
KeyEffect(c) ==
    CASE c \in AcceptKeys -> "yes"
      [] c \in DeclineKeys -> "no"
      [] c \in AllKeys -> "all"
      [] c \in QuitKeys -> "quit"
      [] OTHER -> "again"

\* Faulty variant: the process exits without closing the temporary file
QuitTmpsKept == tmps

\* line 177: closing the NamedTempFile removes it
QuitTmps == tmps \ {tmpfile.id}

\* lines 161-186: one pass of the prompt loop
Prompt ==
    /\ pc = "prompt"
    /\ \/ \E c \in Keys :
            /\ KeyEffect(c) \in {"yes", "no", "all"}
            /\ key' = c
            /\ do_replace' = (KeyEffect(c) # "no")
            /\ all_replace' = (all_replace \/ KeyEffect(c) = "all")
            /\ pc' = "emit"
            /\ shown' = NoShown
            /\ prompts' = 0
            /\ UNCHANGED <<console, out, tmpfile, tmps, x, pm, src, i, k,
                           real_path, metadata, time, dec, scanv>>
       \/ \E c \in Keys :
            /\ KeyEffect(c) = "quit"
            /\ tmps' = QuitTmps
            /\ tmpfile' = NoTmp
            /\ pc' = "exited"
            /\ Exited
            /\ UNCHANGED <<all_replace, console, out>>
       \/ \E c \in Keys :
            /\ KeyEffect(c) = "again"
            /\ prompts < MaxPrompts
            /\ key' = c
            /\ prompts' = prompts + 1
            /\ UNCHANGED <<all_replace, console, out, pc, tmpfile, tmps, x,
                           pm, src, i, k, do_replace, real_path, metadata,
                           time, dec, scanv, shown>>
       \/ /\ Fail
          /\ UNCHANGED all_replace
    /\ UNCHANGED <<fs, handler, installed>>
    /\ Frame

\* Faulty variant: the replacement is written whatever the decision
ResolutionAlways(m, d) == Replacement(Slice(src, m.beg, m.end))

\* lines 188-192: what is written for the match
Resolution(m, d) ==
    IF d THEN Replacement(Slice(src, m.beg, m.end)) ELSE Slice(src, m.beg, m.end)

\* lines 188-194
WriteMatch ==
    /\ pc = "emit"
    /\ \E ok \in BOOLEAN :
         IF ok
         THEN /\ tmpfile' = [tmpfile EXCEPT !.content =
                                 @ \o Resolution(pm.matches[k], do_replace)]
              /\ dec' = Append(dec, do_replace)
              /\ i' = pm.matches[k].end
              /\ k' = k + 1
              /\ pc' = IF k < Len(pm.matches) THEN "gap" ELSE "trail"
              /\ key' = NoKey
              /\ UNCHANGED <<console, out, tmps, x, pm, src, do_replace,
                             real_path, metadata, time, scanv, shown, prompts>>
         ELSE Fail
    /\ UNCHANGED <<all_replace, fs, handler, installed>>
    /\ Frame

\* lines 196-198
Trail == IF i < Len(src) THEN Slice(src, i, Len(src)) ELSE <<>>

\* lines 196-199
WriteTrail ==
    /\ pc = "trail"
    /\ \E ok \in BOOLEAN :
         IF ok
         THEN /\ tmpfile' = [tmpfile EXCEPT !.content = @ \o Trail]
              /\ pc' = "canon"
              /\ UNCHANGED <<console, out, tmps, locv>>
         ELSE Fail
    /\ UNCHANGED <<all_replace, fs, handler, installed>>
    /\ Frame

\* lines 202-212
ReadMeta ==
    /\ pc = "canon"
    /\ \E ok \in BOOLEAN :
         IF ok
         THEN /\ real_path' = Canon(pm.path)
              /\ metadata' = [perm |-> fs[Canon(pm.path)].perm,
                              mtime |-> fs[Canon(pm.path)].mtime,
                              atime |-> fs[Canon(pm.path)].atime]
              /\ time' = IF preserve_time
                         THEN [set |-> TRUE,
                               mtime |-> fs[Canon(pm.path)].mtime,
                               atime |-> fs[Canon(pm.path)].atime]
                         ELSE NoTime
              /\ pc' = "perm"
              /\ UNCHANGED <<console, out, tmpfile, tmps, x, pm, src, i, k,
                             do_replace, dec, scanv, askv>>
         ELSE Fail
    /\ UNCHANGED <<all_replace, fs, handler, installed>>
    /\ Frame

\* line 214
SetPerm ==
    /\ pc = "perm"
    /\ \E ok \in BOOLEAN :
         IF ok
         THEN /\ tmpfile' = [tmpfile EXCEPT !.perm = metadata.perm]
              /\ pc' = "persist"
              /\ UNCHANGED <<console, out, tmps, locv>>
         ELSE Fail
    /\ UNCHANGED <<all_replace, fs, handler, installed>>
    /\ Frame

\* line 215: the rename gives the target the temporary file's bytes,
\* permissions and time stamps in one step
Install(f) ==
    [fs EXCEPT ![f] = [content |-> tmpfile.content, perm |-> tmpfile.perm,
                       mtime |-> Now, atime |-> Now]]

\* lines 215-221
Persist ==
    /\ pc = "persist"
    /\ \E ok \in BOOLEAN :
         IF ok
         THEN /\ fs' = Install(real_path)
              /\ tmps' = tmps \ {tmpfile.id}
              /\ tmpfile' = NoTmp
              /\ installed' = Append(installed,
                    [file |-> real_path, src |-> src, matches |-> pm.matches,
                     dec |-> dec, tmp |-> tmpfile.id])
              /\ IF time.set
                 THEN /\ pc' = "times"
                      /\ UNCHANGED <<console, out, locv>>
                 ELSE /\ ReturnOk
                      /\ UNCHANGED console
         ELSE /\ Fail
              /\ UNCHANGED <<fs, installed>>
    /\ UNCHANGED <<all_replace, handler>>
    /\ Frame

\* lines 217-221
SetTimes ==
    /\ pc = "times"
    /\ \E ok \in BOOLEAN :
         IF ok
         THEN /\ fs' = [fs EXCEPT ![real_path].mtime = time.mtime,
                                  ![real_path].atime = time.atime]
              /\ ReturnOk
              /\ UNCHANGED <<console, tmpfile, tmps>>
         ELSE /\ Fail
              /\ UNCHANGED fs
    /\ UNCHANGED <<all_replace, handler, installed>>
    /\ Frame

\* lines 90-101: SIGINT.  The registered handler removes the path it closed
\* over and exits; with no handler registered the signal ends the process.
Interrupt ==
    /\ pc \notin {"stopped", "exited"}
    /\ sig' = pc
    /\ tmps' = tmps \ {handler}
    /\ pc' = "exited"
    /\ Exited
    /\ tmpfile' = NoTmp
    /\ UNCHANGED <<cfgv, engv, console, fs, handler, ntmp, inp, out,
                   installed, fs0>>

Next ==
    \/ RecvData
    \/ RecvBeg
    \/ RecvEnd
    \/ RecvMsg
    \/ Disconnect
    \/ CreateTmp
    \/ SetHandler
    \/ OpenMap
    \/ WriteGap
    \/ Prompt
    \/ WriteMatch
    \/ WriteTrail
    \/ ReadMeta
    \/ SetPerm
    \/ Persist
    \/ SetTimes
    \/ Interrupt

Spec == Init /\ [][Next]_vars

----------------------------------------------------------------------------
(* Properties *)

RECURSIVE Apply(_, _, _, _, _)
\* The bytes of s from offset `from` on, with match n, n+1, ... of ms
\* replaced where ds says so and everything else copied
Apply(s, ms, ds, n, from) ==
    IF n > Len(ms) THEN Slice(s, from, Len(s))
    ELSE Slice(s, from, ms[n].beg)
            \o (IF ds[n] THEN Replacement(Slice(s, ms[n].beg, ms[n].end))
                ELSE Slice(s, ms[n].beg, ms[n].end))
            \o Apply(s, ms, ds, n + 1, ms[n].end)

NewContent(r) == Apply(r.src, r.matches, r.dec, 1, 0)

InstalledFiles == {installed[j].file : j \in 1..Len(installed)}

\* C1: the content of every file is at all times either its original bytes
\* or the complete new content of its rewrite, and the only step that
\* changes a file's content is the persist of a fully written temporary
\* file, which replaces the original bytes by the complete new content.
C1_ContentIsOldOrNew ==
    \A f \in Files :
        \/ fs[f].content = fs0[f].content
        \/ \E j \in 1..Len(installed) :
              /\ installed[j].file = f
              /\ Len(installed[j].dec) = Len(installed[j].matches)
              /\ fs[f].content = NewContent(installed[j])

C1_OnlyInstallChanges ==
    \A f \in Files :
        fs'[f].content # fs[f].content =>
            /\ pc = "persist"
            /\ f = real_path
            /\ fs[f].content = fs0[f].content
            /\ Len(dec) = Len(pm.matches)
            /\ fs'[f].content = Apply(src, pm.matches, dec, 1, 0)

C1_AtomicInstall == []C1_ContentIsOldOrNew /\ [][C1_OnlyInstallChanges]_vars

\* C1 witness: a rewrite of two matches was installed and changed the file
C1_Witness ==
    \E j \in 1..Len(installed) :
        /\ Len(installed[j].matches) = 2
        /\ fs[installed[j].file].content # fs0[installed[j].file].content

Earlier(q, n) ==
    {j \in 1..(n - 1) :
        /\ q[j].t = "SeqDat"
        /\ q[j].n > 0
        /\ Canon(q[j].path) = Canon(q[n].path)}

\* C3: a PathMatch with matches whose path canonicalizes to the file of an
\* earlier one is handled in the step that receives it: no temporary file,
\* no install, no diagnostic, only its token; and no file is installed twice.
C3_DuplicateStep ==
    (/\ Len(inp') = Len(inp) + 1
     /\ inp'[Len(inp')].t = "SeqDat"
     /\ inp'[Len(inp')].n > 0
     /\ Canon(inp'[Len(inp')].path) # NoFile
     /\ Earlier(inp', Len(inp')) # {})
    => /\ ntmp' = ntmp
       /\ tmps' = tmps
       /\ fs' = fs
       /\ installed' = installed
       /\ console' = console
       /\ errors' = errors
       /\ pc' = "recv"
       /\ out' = Append(out, SeqDat(inp'[Len(inp')].a))

C3_InstalledOnce ==
    \A j1, j2 \in 1..Len(installed) :
        installed[j1].file = installed[j2].file => j1 = j2

C3_Dedup == []C3_InstalledOnce /\ [][C3_DuplicateStep]_vars

\* C3 witness: the file was installed through one path and a PathMatch for
\* it then arrived through another
C3_Witness ==
    /\ Len(inp) = 2
    /\ inp[1].t = "SeqDat" /\ inp[1].n > 0
    /\ inp[2].t = "SeqDat" /\ inp[2].n > 0
    /\ inp[1].path # inp[2].path
    /\ Canon(inp[1].path) = Canon(inp[2].path)
    /\ Len(installed) = 1
    /\ Len(out) = 2


\* The pc values of a rewrite whose handler registration was attempted and
\* whose install has not happened
Rewriting == {"open", "gap", "prompt", "emit", "trail", "canon", "perm", "persist"}

\* C4: when an interrupt arrives during a file's rewrite, after the handler
\* registration and before the install, then after the exit no temporary
\* file remains and the target has its original content, for the first and
\* for every later file.
C4_InterruptCleansUp ==
    (pc = "exited" /\ sig \in Rewriting) =>
        /\ tmps = {}
        /\ fs[Canon(pm.path)].content = fs0[Canon(pm.path)].content

\* The messages of q with a type in T, as sent
Filter(q, T) ==
    LET F[n \in 0..Len(q)] ==
            IF n = 0 THEN <<>>
            ELSE IF q[n].t \in T THEN Append(F[n - 1], Sent(q[n])) ELSE F[n - 1]
    IN F[Len(q)]

Front(q) == SubSeq(q, 1, Len(q) - 1)

EndReceived == inp # <<>> /\ inp[Len(inp)].t = "SeqEnd"

\* A SeqDat has been received and replace_match has not returned for it
InProgress == pm # NoPm

\* The messages whose handling is complete
Handled == IF InProgress THEN Front(inp) ELSE inp

\* C5: the SeqBeg messages sent are the first SeqBeg received and no other,
\* and the SeqEnd messages sent are the one SeqEnd received.
C5_OneBeginOneEnd ==
    LET bi == Filter(inp, {"SeqBeg"})
        bo == Filter(out, {"SeqBeg"})
    IN /\ bo = IF bi = <<>> THEN <<>> ELSE <<bi[1]>>
       /\ Filter(out, {"SeqEnd"}) = Filter(inp, {"SeqEnd"})
       /\ Len(Filter(out, {"SeqEnd"})) <= 1

\* C5 witness: two SeqBeg with different ids, then SeqEnd
C5_Witness ==
    /\ pc = "stopped"
    /\ EndReceived
    /\ Len(Filter(inp, {"SeqBeg"})) = 2
    /\ inp[1].t = "SeqBeg"
    /\ Filter(inp, {"SeqBeg"})[1] # Filter(inp, {"SeqBeg"})[2]

\* C6: once SeqEnd(s) has been received the output ends with the stage's
\* own infos, its own errors, one MsgTime tagged with its id and SeqEnd(s),
\* in this order; before them come the tokens of all SeqDat received and no
\* SeqEnd and no message of the stage's own; and the stopped stage neither
\* sends nor reads.
C6_EndFlush ==
    EndReceived =>
        LET n == Len(out)
            ni == Len(infos)
            ne == Len(errors)
            fwd == SubSeq(out, 1, n - ni - ne - 2)
        IN /\ pc = "stopped"
           /\ n >= ni + ne + 2
           /\ \A j \in 1..ni : out[n - 2 - ne - ni + j] = Msg("MsgInfo", Id, infos[j])
           /\ \A j \in 1..ne : out[n - 2 - ne + j] = Msg("MsgErr", Id, errors[j])
           /\ out[n - 1] = Msg("MsgTime", Id, 0)
           /\ out[n] = SeqEnd(inp[Len(inp)].a)
           /\ \A j \in 1..Len(fwd) :
                 /\ fwd[j].t # "SeqEnd"
                 /\ fwd[j].t \in MsgKinds => fwd[j].a # Id
           /\ Len(Filter(fwd, {"SeqDat"})) = NData

C6_StoppedIsSilent == pc = "stopped" => (out' = out /\ inp' = inp)

C6_EndLast == []C6_EndFlush /\ [][C6_StoppedIsSilent]_vars

\* C6 witness: a SeqDat was rewritten and SeqEnd then received
C6_Witness ==
    /\ EndReceived
    /\ NData = 1
    /\ Len(installed) = 1

\* C7: the tokens sent are the sequence ids of the SeqDat messages whose
\* processing has finished, one each, in the order received.
C7_TokenPerData ==
    Filter(out, {"SeqDat"}) = Filter(Handled, {"SeqDat"})

\* C7 witness: one item was rewritten, the other failed, both tokens sent
C7_Witness ==
    /\ Len(Filter(out, {"SeqDat"})) = 2
    /\ Len(installed) = 1
    /\ Len(console) = 1
    /\ Canon(console[1]) \notin InstalledFiles

\* The relayed diagnostics and the tokens among the messages of q
Relayed(q) ==
    LET F[n \in 0..Len(q)] ==
            IF n = 0 THEN <<>>
            ELSE IF \/ q[n].t = "SeqDat"
                    \/ (q[n].t \in MsgKinds /\ q[n].a # Id)
                 THEN Append(F[n - 1], Sent(q[n]))
                 ELSE F[n - 1]
    IN F[Len(q)]

\* C8: the diagnostics of other stages are sent once each, unchanged, in
\* their order of arrival among each other and among the tokens.
C8_RelayInOrder == Relayed(out) = Relayed(Handled)

\* C8 witness: a diagnostic, a token, another diagnostic
C8_Witness ==
    /\ Len(out) = 3
    /\ out[1].t \in MsgKinds
    /\ out[2].t = "SeqDat"
    /\ out[3].t \in MsgKinds
    /\ out[1].t # out[3].t

\* C9: when SeqEnd has been received, the stage has sent one MsgErr tagged
\* with its id for every item whose rewrite failed.
C9_ErrorsSentAtEnd ==
    EndReceived =>
        /\ Len(errors) = Len(console)
        /\ Cardinality({j \in 1..Len(out) : out[j].t = "MsgErr" /\ out[j].a = Id})
              = Len(console)

\* C10: the target of a failed rewrite has the content, the permissions and
\* the modification time it had before the run.
C10_FailureLeavesTarget ==
    \A j \in 1..Len(console) :
        LET f == Canon(console[j]) IN
        /\ fs[f].content = fs0[f].content
        /\ fs[f].perm = fs0[f].perm
        /\ fs[f].mtime = fs0[f].mtime

\* The step of a failed rewrite: it writes the diagnostic, returns from
\* replace_match, sends the item's token and leaves the stage reading.
C11_FailStep ==
    console' # console =>
        /\ pc = "recv" \/ pc \in Rewriting \cup {"tmpfile", "handler", "times"}
        /\ pc' = "recv"
        /\ out' = out \o <<SeqDat(x)>>
        /\ pm' = NoPm
        /\ UNCHANGED <<inp, all_replace, replaced_paths, seq_beg_arrived>>

\* A SeqEnd received after a failure is answered as any other
C11_EndAfterFailure ==
    (console # <<>> /\ EndReceived) =>
        /\ Len(out) >= 2
        /\ out[Len(out) - 1] = Msg("MsgTime", Id, 0)
        /\ out[Len(out)] = SeqEnd(inp[Len(inp)].a)
        /\ Len(Filter(out, {"SeqDat"})) = NData

\* C11: a rewrite that fails does not end the stage: the failing step sends
\* the item's token and leaves the stage reading its input, and a SeqEnd
\* received later is answered with MsgTime and SeqEnd as usual.
C11_FailureDoesNotStop == []C11_EndAfterFailure /\ [][C11_FailStep]_vars

\* C11 witness: the first item failed after its temporary file was made,
\* the second item was then rewritten and installed
C11_Witness ==
    /\ Len(console) = 1
    /\ Len(installed) = 1
    /\ installed[1].tmp = 2
    /\ Canon(inp[1].path) = Canon(console[1])
    /\ Len(Filter(out, {"SeqDat"})) = 2

\* The step that receives a SeqDat whose PathMatch has n matches for path p
ReceivesData(p, n) ==
    /\ Len(inp') = Len(inp) + 1
    /\ inp'[Len(inp')].t = "SeqDat"
    /\ inp'[Len(inp')].path = p
    /\ inp'[Len(inp')].n = n

\* The step sends the token of the SeqDat it receives and does nothing else
OnlyToken ==
    /\ out' = Append(out, Sent(inp'[Len(inp')]))
    /\ pc' = "recv"
    /\ UNCHANGED <<fs, tmps, ntmp, tmpfile, handler, installed, console,
                   replaced_paths, all_replace, infos, errors, pm, prompts>>

\* C12: a SeqDat whose PathMatch has no match changes nothing but the
\* output, which gets its token: no file is opened, no temporary file is
\* made, nothing is installed, the set of replaced paths is as before, no
\* prompt and no diagnostic is written.
C12_EmptyMatchNoOp ==
    [][\A p \in Paths : ReceivesData(p, 0) => OnlyToken]_vars

\* C12 witness: a PathMatch without matches for a file, then one with
\* matches for the same file, which is rewritten and installed
C12_Witness ==
    /\ Len(inp) = 2
    /\ inp[1].t = "SeqDat" /\ inp[1].n = 0
    /\ inp[2].t = "SeqDat" /\ inp[2].n > 0
    /\ Canon(inp[1].path) = Canon(inp[2].path)
    /\ Len(installed) = 1
    /\ installed[1].file = Canon(inp[1].path)
    /\ Len(out) = 2

\* replace_match has returned Ok for file f
Rewritten(f) ==
    /\ f \in InstalledFiles
    /\ ~(InProgress /\ Canon(pm.path) = f)
    /\ \A j \in 1..Len(console) : Canon(console[j]) # f

\* C13: after a successful rewrite the file has, with preserve_time, the
\* modification and access times the original had before the rewrite began,
\* and without it the times of the installation.
C13_TimesPreserved ==
    \A f \in Files :
        Rewritten(f) =>
            IF preserve_time
            THEN /\ fs[f].mtime = fs0[f].mtime
                 /\ fs[f].atime = fs0[f].atime
            ELSE /\ fs[f].mtime = Now
                 /\ fs[f].atime = Now

\* The step in which the loop finds its input disconnected: the stage stops
\* without having received anything
Disconnects == pc = "recv" /\ pc' = "stopped" /\ inp' = inp

\* A stage stopped without SeqEnd has sent no SeqEnd and nothing of its own
C14_StoppedWithoutEnd ==
    (pc = "stopped" /\ ~EndReceived) =>
        /\ \A j \in 1..Len(out) :
              /\ out[j].t # "SeqEnd"
              /\ out[j].t \in MsgKinds => out[j].a # Id
        /\ Filter(out, {"SeqDat"}) = Filter(inp, {"SeqDat"})
        /\ Relayed(out) = Relayed(inp)

\* C14: when the input is disconnected before SeqEnd, the loop is left and
\* nothing is sent: no SeqEnd, no MsgTime, no MsgInfo or MsgErr of the
\* stage's own; what was forwarded before stays as it was.
C14_DisconnectIsSilent ==
    []C14_StoppedWithoutEnd /\ [][Disconnects => out' = out]_vars

\* C14 witness: disconnected after a token and a relayed message were sent
C14_Witness ==
    /\ pc = "stopped"
    /\ ~EndReceived
    /\ Len(out) = 2
    /\ out[1].t = "SeqDat"
    /\ out[2].t \in MsgKinds

\* C15: a SeqDat whose path cannot be canonicalized is abandoned without a
\* trace: no temporary file, no change of a file, nothing put into the set
\* of replaced paths, nothing written to the console or recorded as an
\* error; its token is sent all the same.
C15_UnresolvedPathSilent ==
    [][\A p \in Paths, n \in 1..MaxMatches :
          (Canon(p) = NoFile /\ ReceivesData(p, n)) => OnlyToken]_vars

\* C15 witness: a PathMatch with a match for a path that does not resolve,
\* then SeqEnd, answered without an error message
C15_Witness ==
    /\ Len(inp) = 2
    /\ inp[1].t = "SeqDat" /\ inp[1].n = 1 /\ Canon(inp[1].path) = NoFile
    /\ EndReceived
    /\ out = <<SeqDat(1), Msg("MsgTime", Id, 0), SeqEnd(inp[2].a)>>
    /\ ntmp = 0
    /\ replaced_paths = {}

\* The keys the prompt recognises
KnownKeys == AcceptKeys \cup DeclineKeys \cup AllKeys \cup QuitKeys

\* A prompt is open only in interactive mode and before the "all" key
C16_PromptOnlyBeforeAll == pc = "prompt" => (is_interactive /\ ~all_replace)

\* A match that is written after the "all" key is replaced
C16_ReplacedAfterAll == (pc = "emit" /\ all_replace) => do_replace

C16_Step ==
    \* the "all" key stays pressed for the life of the engine
    /\ all_replace => all_replace'
    \* the "all" key replaces the match it was pressed at
    /\ (pc = "prompt" /\ pc' = "emit" /\ key' \in AllKeys) =>
          (all_replace' /\ do_replace')
    \* before the "all" key every match of an interactive run is prompted
    /\ (pc = "gap" /\ pc' = "emit") => (~is_interactive \/ all_replace)
    /\ (pc = "gap" /\ pc' = "prompt") => prompts' = 1
    \* the question is written again only after an unrecognised key
    /\ (pc = "prompt" /\ prompts' > prompts) =>
          (pc' = "prompt" /\ prompts' = prompts + 1 /\ key' \notin KnownKeys)

\* C16: in interactive mode, the "all" key replaces the match it is pressed
\* at, and from then on the engine prompts for no match, of this file or of
\* a later one, and replaces every match; before it, every match is
\* prompted for, and the question is repeated only after a key that is not
\* recognised.
C16_AllKey ==
    /\ []C16_PromptOnlyBeforeAll
    /\ []C16_ReplacedAfterAll
    /\ [][C16_Step]_vars

\* C16 witness: the first file's matches were declined and then answered
\* with the "all" key; a match of the second file is replaced unprompted
C16_Witness ==
    /\ is_interactive
    /\ all_replace
    /\ Len(installed) = 1
    /\ installed[1].dec = <<FALSE, TRUE>>
    /\ pc = "emit"
    /\ key = NoKey
    /\ do_replace

\* The process has ended by the "quit" key (an interrupt records its place)
QuitExit == pc = "exited" /\ sig = "none"

\* The step of the "quit" key
Quits == pc = "prompt" /\ pc' = "exited" /\ sig' = "none"

C17_AfterQuit ==
    QuitExit =>
        LET f == Canon(pm.path) IN
        \* the file being rewritten is as it was, the temporary file is gone
        /\ fs[f].content = fs0[f].content
        /\ fs[f].perm = fs0[f].perm
        /\ fs[f].mtime = fs0[f].mtime
        /\ f \notin InstalledFiles
        /\ tmps = {}
        \* neither that item's token nor SeqEnd was sent
        /\ inp[Len(inp)].t = "SeqDat"
        /\ Filter(out, {"SeqDat"}) = Filter(Front(inp), {"SeqDat"})
        /\ Filter(out, {"SeqEnd"}) = <<>>
        \* the files installed before stay replaced
        /\ \A j \in 1..Len(installed) :
              fs[installed[j].file].content = NewContent(installed[j])

C17_Step ==
    /\ Quits => (tmps' = tmps \ {tmpfile.id} /\ out' = out /\ fs' = fs
                 /\ inp' = inp /\ installed' = installed)
    \* the ended process takes no step
    /\ pc # "exited"

\* C17: the "quit" key at a prompt for a file discards the temporary file
\* and ends the process at once: the file keeps its original content, also
\* when earlier matches of it were accepted, no later item is processed,
\* neither the file's token nor SeqEnd is sent, and the files installed
\* earlier stay replaced.
C17_Quit == []C17_AfterQuit /\ [][C17_Step]_vars

\* C17 witness: one file was installed; in the next file the first match
\* was accepted and the "quit" key pressed at the second
C17_Witness ==
    /\ QuitExit
    /\ Len(installed) = 1
    /\ fs[installed[1].file].content # fs0[installed[1].file].content
    /\ dec = <<TRUE>>
    /\ Len(pm.matches) = 2

\* Between two items, and once the loop is left, no temporary file exists
C18_NoneBetweenItems == pc \in {"recv", "stopped"} => tmps = {}

\* The temporary file that exists while an item is rewritten is that item's
C18_OnlyTheCurrent ==
    (pc \notin {"exited"} /\ tmps # {}) => tmps = {tmpfile.id}

\* C18: once replace_match has returned for an item, installed, skipped or
\* failed, no temporary file made for it exists; and at every instant at
\* most one temporary file made by the engine exists.
C18_TemporaryFiles ==
    /\ C18_NoneBetweenItems
    /\ C18_OnlyTheCurrent
    /\ Cardinality(tmps) <= 1

\* C18 witness: one item failed after its temporary file was made, another
\* was installed, and the stage is reading again with no temporary file left
C18_Witness ==
    /\ pc = "recv"
    /\ ntmp = 2
    /\ Len(console) = 1
    /\ Len(installed) = 1
    /\ tmps = {}

\* The offsets before beg at which s has a line feed
LFsBefore(s, beg) == {j \in 0..(beg - 1) : s[j + 1] = LF}

\* The offset of the last line feed before beg, 0 when there is none
LastLFBefore(s, beg) ==
    IF LFsBefore(s, beg) = {} THEN 0
    ELSE CHOOSE j \in LFsBefore(s, beg) : \A h \in LFsBefore(s, beg) : h <= j

\* At a prompt with column or row display the scan has reached the match
\* and the header shows the numbers of the claim
C19_AtPrompt ==
    (pc = "prompt" /\ (print_column \/ print_row)) =>
        LET beg == pm.matches[k].beg IN
        /\ pos = beg
        /\ column = Cardinality(LFsBefore(src, beg))
        /\ last_lf = LastLFBefore(src, beg)
        /\ print_column => shown.column = Cardinality(LFsBefore(src, beg)) + 1
        /\ print_row => shown.row = beg - LastLFBefore(src, beg)

\* While a file is rewritten the cursor and the counts do not go back
C19_Forward ==
    (InProgress /\ pm' = pm /\ pc' # "exited") =>
        (pos' >= pos /\ column' >= column /\ last_lf' >= last_lf)

FailedFiles == {Canon(console[j]) : j \in 1..Len(console)}

\* The file of a rewrite under way or failed is in the set of replaced
\* paths, and no file has had a second temporary file
C20_Remembered ==
    /\ InProgress => Canon(pm.path) \in replaced_paths
    /\ FailedFiles \subseteq replaced_paths
    /\ ntmp <= Cardinality(replaced_paths)

C20_Step ==
    \* nothing is taken out of the set
    /\ replaced_paths \subseteq replaced_paths'
    \* a temporary file is made only for a path already in the set
    /\ ntmp' # ntmp => (InProgress /\ Canon(pm.path) \in replaced_paths)
    \* a PathMatch for a file whose rewrite failed is skipped silently
    /\ \A p \in Paths, n \in 1..MaxMatches :
          (Canon(p) \in FailedFiles /\ ReceivesData(p, n)) => OnlyToken

\* C20: the canonical path is put into the set of replaced paths before the
\* rewrite is attempted and is never taken out; after a rewrite that failed
\* with an I/O error, a later PathMatch that resolves to the same file is
\* skipped without a rewrite attempt and without a diagnostic.
C20_FailedIsNotRetried == []C20_Remembered /\ [][C20_Step]_vars

\* C20 witness: the rewrite of a file failed after its temporary file was
\* made; a second PathMatch for the file by another path got its token only
C20_Witness ==
    /\ pc = "recv"
    /\ Len(inp) = 2
    /\ inp[1].t = "SeqDat" /\ inp[1].n > 0
    /\ inp[2].t = "SeqDat" /\ inp[2].n > 0
    /\ inp[1].path # inp[2].path
    /\ Canon(inp[1].path) = Canon(inp[2].path)
    /\ Len(console) = 1
    /\ ntmp = 1
    /\ installed = <<>>
    /\ out = <<SeqDat(1), SeqDat(2)>>

====
